---- MODULE Spec2Model ----
(***************************************************************************)
(* Finger tracking front ends: the three scripts of the repository.        *)
(*   "blend"    src/unnamed/part_000  (script.js: TF.js detector, buttons, *)
(*              sliding median + exponential blend)                        *)
(*   "keyboard" src/unnamed/part_001  (MediaPipe Hands, keyboard toggles,  *)
(*              mode smoothing, window of 8)                               *)
(*   "backup"   src/finger_track_app_v1/public/script_bkp.js (MediaPipe    *)
(*              Hands, mode smoothing, window of 6)                        *)
(* A page loads exactly one of them; `variant` says which.                 *)
(***************************************************************************)
EXTENDS Integers, Sequences, FiniteSets, TLC

VARIABLES
  variant,       \* which script the page runs
  pc,            \* start-up position: "loading", "starting", "running", "failed"
  modelLoaded,   \* part_000: let modelLoaded
  raf,           \* part_000: pending requestAnimationFrame(processFrame) callbacks
  awaiting,      \* part_000: processFrame invocations suspended at estimateHands,
                 \*           each with its local maxHands
  showSkeleton,  \* let showSkeleton
  multiHand,     \* let multiHand / let showMultipleHands
  mirror,        \* part_000: let mirror
  clicks,        \* UI events handled so far
  countHistory,  \* let countHistory
  handHistory,   \* let handHistory / let handedHistory
  smoothCount,   \* part_000: let smoothCount
  smoothHand,    \* part_000: let smoothHand
  countEl,       \* the number shown in countEl.innerText ("Fingers: n")
  handedEl,      \* the label shown in handedEl.innerText ("Hand: x")
  statusEl,      \* statusEl.innerText
  observed,      \* the <<count, label>> pairs pushed since the last reset
  frame          \* what the last run of the frame handler received and did

vars == <<variant, pc, modelLoaded, raf, awaiting, showSkeleton, multiHand,
          mirror, clicks, countHistory, handHistory, smoothCount, smoothHand,
          countEl, handedEl, statusEl, observed, frame>>

Variants == {"blend", "keyboard", "backup"}

-----------------------------------------------------------------------------
(* Program constants *)

COUNT_HISTORY == 8

HAND_HISTORY == 8

HISTORY_MAX_KEYBOARD == 8

HISTORY_MAX_BACKUP == 6

LANDMARKS == 21

THUMB_THRESHOLD == 150

FINGER_THRESHOLD == 160

\* hands.setOptions({ maxNumHands: 2 }); the TF.js detector of part_000 is
\* created without maxHands and reports at most 2 hands as well
MaxNumHands == 2

\* the sentinel the scripts write into handedEl when no hand is seen (the
\* em dash, U+2014, of 'Hand: ...')
Dash == "-"

\* text that comes from the page markup, never written by the script
Markup == -1

\* getUserMedia({video: {width:1280, height:720}}); fitCanvasToVideo gives the
\* canvas the size of the video
CanvasWidth == 1280

CanvasHeight == 720

-----------------------------------------------------------------------------
(* Bounds of the model *)

\* observations between two resets, main specification
MaxObs == 2

\* UI events in a session, main specification
MaxClicks == 2

\* observations between two resets, long-run specification
MaxLongObs == 9

\* UI events in a session, long-run specification
MaxLongClicks == 1

\* observations between two resets, geometry specification
MaxGeomObs == 1

\* UI events in a session, geometry specification
MaxGeomClicks == 1

-----------------------------------------------------------------------------
(* Numbers.  Coordinates are fractions <<numerator, denominator>> in lowest *)
(* terms with a positive denominator.  An operator names each operand and  *)
(* each intermediate result once, as the element of a singleton, so that   *)
(* it is computed once however often it is used.                           *)

\* the element of a singleton
The(S) == CHOOSE v \in S : TRUE

Abs(k) == IF k < 0 THEN -k ELSE k

RECURSIVE Gcd(_, _)
Gcd(a, b) == IF b = 0 THEN a ELSE The({Gcd(b, r) : r \in {a % b}})

Rat(num, den) ==
  The({IF n = 0 THEN <<0, 1>>
       ELSE The({<<n \div g, d \div g>> : g \in {Gcd(Abs(n), d)}}) :
       n \in {num}, d \in {den}})

Plus(a, b) ==
  The({The({Rat(p[1] * (q[2] \div g) + q[1] * (p[2] \div g), (p[2] \div g) * q[2]) :
            g \in {Gcd(p[2], q[2])}}) :
       p \in {a}, q \in {b}})

Minus(a, b) == The({Plus(a, <<-q[1], q[2]>>) : q \in {b}})

Times(a, b) ==
  The({IF p[1] = 0 \/ q[1] = 0 THEN <<0, 1>>
       ELSE The({<<(p[1] \div g1) * (q[1] \div g2), (p[2] \div g2) * (q[2] \div g1)>> :
                 g1 \in {Gcd(Abs(p[1]), q[2])}, g2 \in {Gcd(Abs(q[1]), p[2])}}) :
       p \in {a}, q \in {b}})

\* a / b for b # 0
Over(a, b) ==
  The({Times(a, IF q[1] < 0 THEN <<-q[2], -q[1]>> ELSE <<q[2], q[1]>>) : q \in {b}})

Less(a, b) == Minus(a, b)[1] < 0

\* a coordinate that is not there, written as the fraction 0/0 that no
\* number has
Undefined == <<0, 0>>

\* (v || 0) for a coordinate v that is a number or undefined
OrZero(v) == IF v = Undefined THEN <<0, 1>> ELSE v

-----------------------------------------------------------------------------
(* Angles *)

\* cos^2 of 0, 1, ..., 89 degrees in units of 10^-5 (entry d + 1 is for d
\* degrees)
CosSquared ==
  <<100000, 99970, 99878, 99726, 99513, 99240, 98907, 98515, 98063, 97553,
    96985, 96359, 95677, 94940, 94147, 93301, 92402, 91452, 90451, 89401,
    88302, 87157, 85967, 84733, 83457, 82139, 80783, 79389, 77960, 76496,
    75000, 73474, 71919, 70337, 68730, 67101, 65451, 63782, 62096, 60396,
    58682, 56959, 55226, 53488, 51745, 50000, 48255, 46512, 44774, 43041,
    41318, 39604, 37904, 36218, 34549, 32899, 31270, 29663, 28081, 26526,
    25000, 23504, 22040, 20611, 19217, 17861, 16543, 15267, 14033, 12843,
    11698, 10599, 9549, 8548, 7598, 6699, 5853, 5060, 4323, 3641,
    3015, 2447, 1937, 1485, 1093, 760, 487, 274, 122, 30>>

\* Math.acos(cos) * (180 / Math.PI), as the least whole number of degrees
\* that is not below it (a > t for a whole t iff this number > t), for
\* cos = dot / (mag1 * mag2) with mag1 = sqrt(m1), mag2 = sqrt(m2) non-zero.
\* The angle exceeds d degrees iff cos < cos(d), decided on the squares.
Degrees(dot, m1, m2) ==
  The({LET Exceeds(d) ==
             IF d = 90 THEN dt[1] < 0
             ELSE IF d < 90
             THEN dt[1] <= 0 \/ cos2[1] * 100000 < CosSquared[d + 1] * cos2[2]
             ELSE dt[1] < 0 /\ cos2[1] * 100000 > CosSquared[180 - d + 1] * cos2[2]
       IN  IF dt[1] = 0 THEN 90
           ELSE IF cos2 = <<1, 1>> THEN (IF dt[1] < 0 THEN 180 ELSE 0)
           ELSE Cardinality({d \in 0..179 : Exceeds(d)}) :
       <<dt, cos2>> \in {The({<<v, Times(Over(v, m1), Over(v, m2))>> : v \in {dot}})}})

\* the vectors of angleBetween: <<abx, aby, abz, cbx, cby, cbz>>
Vectors(a, b, c) ==
  The({<<Minus(p.x, q.x), Minus(p.y, q.y), Minus(OrZero(p.z), OrZero(q.z)),
         Minus(r.x, q.x), Minus(r.y, q.y), Minus(OrZero(r.z), OrZero(q.z))>> :
       p \in {a}, q \in {b}, r \in {c}})

\* <<dot, m1, m2>> of those vectors, m1 and m2 being the squares of mag1
\* and mag2: Math.hypot is 0 exactly when every component is
Products(v) ==
  The({<<Plus(Plus(Times(w[1], w[4]), Times(w[2], w[5])), Times(w[3], w[6])),
         Plus(Plus(Times(w[1], w[1]), Times(w[2], w[2])), Times(w[3], w[3])),
         Plus(Plus(Times(w[4], w[4]), Times(w[5], w[5])), Times(w[6], w[6]))>> :
       w \in {v}})

\* an angle function whose guard asks for both vectors to vanish; dot / 0 is
\* NaN when only one does, and NaN, of which every comparison is false, is
\* written -1
angleBetweenBothZero(a, b, c) ==
  The({IF m1[1] = 0 /\ m2[1] = 0 THEN 0
       ELSE IF m1[1] = 0 \/ m2[1] = 0 THEN -1
       ELSE Degrees(dot, m1, m2) :
       <<dot, m1, m2>> \in {Products(Vectors(a, b, c))}})

\* part_000: function angleBetween(a, b, c); angleBetweenPoints in the other
\* two scripts
angleBetween(a, b, c) ==
  The({IF m1[1] = 0 \/ m2[1] = 0 THEN 0
       ELSE Degrees(dot, m1, m2) :
       <<dot, m1, m2>> \in {Products(Vectors(a, b, c))}})

\* [2,3,4], [5,6,8], [9,10,12], [13,14,16], [17,18,20]
FingerJoints == << <<2, 3, 4>>, <<5, 6, 8>>, <<9, 10, 12>>, <<13, 14, 16>>, <<17, 18, 20>> >>

TipIndices == <<4, 8, 12, 16, 20>>

\* the value standing for an angle that is never computed because reading
\* a landmark throws first
NoAngle == -1

\* angleBetween(landmarks[mcp], landmarks[pip], landmarks[tip]) for finger f
\* of the landmark list pts (pts[i + 1] is landmarks[i])
JointAngle(pts, f) ==
  The({IF \A k \in 1..3 : j[k] < Len(lm)
       THEN angleBetween(lm[j[1] + 1], lm[j[2] + 1], lm[j[3] + 1])
       ELSE NoAngle :
       lm \in {pts}, j \in {FingerJoints[f]}})

-----------------------------------------------------------------------------
(* Detector results.  A hand is its landmark list and handedness: pts are  *)
(* the landmarks (h.keypoints3D || h.keypoints in part_000,                *)
(* multiHandLandmarks[i] in the other scripts), n their number, label the  *)
(* detector's handedness label, "" when it gives none.  ang keeps with     *)
(* the list the angle that angleBetween gives for each finger's joint      *)
(* triple, and scaled the angles it gives once the list is divided by the  *)
(* canvas size (for the lists that part_000 divides), so that they are     *)
(* computed once per list.                                                 *)

\* part_000: landmarks[0].x > 1.5
FirstXInPixels(pts) == Len(pts) > 0 /\ Less(<<3, 2>>, pts[1].x)

\* part_000: landmarks.map(pt => ({x: pt.x / canvas.width,
\* y: pt.y / canvas.height, z: pt.z}))
Scaled(pts) ==
  The({[k \in DOMAIN lm |->
          [x |-> Over(lm[k].x, <<CanvasWidth, 1>>),
           y |-> Over(lm[k].y, <<CanvasHeight, 1>>),
           z |-> lm[k].z]] :
       lm \in {pts}})

\* angleBetween on the joint triple of each of the five fingers
Angles(pts) ==
  The({<<JointAngle(lm, 1), JointAngle(lm, 2), JointAngle(lm, 3),
         JointAngle(lm, 4), JointAngle(lm, 5)>> :
       lm \in {pts}})

Hand(pts, l) ==
  The({[n |-> Len(lm), pts |-> lm, ang |-> Angles(lm),
        scaled |-> IF FirstXInPixels(lm) THEN Angles(Scaled(lm)) ELSE <<>>,
        label |-> l] :
       lm \in {pts}})

\* A finger of a sample hand: where, seen from the middle joint of its
\* triple, the first joint (a) and the tip (c) lie, in grid steps, and the z
\* of the three joints (a fraction of grid steps, or undefined).
Shape(a, c, z) == [a |-> a, c |-> c, z |-> z]

Flat == <<Undefined, Undefined, Undefined>>

\* 180 degrees
Straight == Shape(<<0, 8>>, <<0, -8>>, Flat)

\* 90 degrees
Bent == Shape(<<0, 8>>, <<8, 0>>, Flat)

\* 150.9 degrees
Above150 == Shape(<<0, 8>>, <<5, -9>>, Flat)

\* 149.7 degrees
Below150 == Shape(<<0, 8>>, <<7, -12>>, Flat)

\* 160.3 degrees
Above160 == Shape(<<0, 8>>, <<5, -14>>, Flat)

\* 159.4 degrees
Below160 == Shape(<<0, 8>>, <<3, -8>>, Flat)

\* the first joint on the middle joint, one without z and one with z = 0
FirstOnMiddle == Shape(<<0, 0>>, <<0, -8>>, <<Undefined, <<0, 1>>, Undefined>>)

\* the tip on the middle joint, one with z = 0 and one without z
TipOnMiddle == Shape(<<0, 8>>, <<0, 0>>, << <<0, 1>>, Undefined, <<0, 1>> >>)

\* all three joints on one point
AllOnMiddle == Shape(<<0, 0>>, <<0, 0>>, << <<0, 1>>, <<0, 1>>, Undefined>>)

\* the first joint straight behind the middle joint: they differ in z only
BehindMiddle == Shape(<<0, 0>>, <<0, -8>>, << <<3, 1>>, Undefined, Undefined>>)

\* where a sample hand lies: the point of grid position <<0, 0>> and the
\* length of a grid step along x and y
Placement(ox, oy, ux, uy) == [ox |-> ox, oy |-> oy, ux |-> ux, uy |-> uy]

\* in normalized coordinates
Normalized == Placement(<<1, 10>>, <<1, 2>>, <<1, 200>>, <<1, 200>>)

\* in pixels of a 1280 x 720 frame
Pixels == Placement(<<100, 1>>, <<360, 1>>, <<9, 1>>, <<9, 1>>)

\* landmark i of the hand with the given finger shapes and wrist: landmark 0
\* is the wrist, 4f-3 .. 4f the joints of finger f; the middle joint of
\* finger f's triple is at grid position <<20 f, 0>>
Landmark(i, shapes, wrist, at) ==
  IF i = 0 THEN wrist
  ELSE LET f    == (i - 1) \div 4 + 1
           j    == FingerJoints[f]
           sh   == shapes[f]
           grid == IF i = j[1] THEN sh.a
                   ELSE IF i = j[3] THEN sh.c
                   ELSE IF i = j[2] THEN <<0, 0>>
                   ELSE <<0, -4>>
           zs   == IF i = j[1] THEN sh.z[1]
                   ELSE IF i = j[3] THEN sh.z[3]
                   ELSE sh.z[2]
       IN  [x |-> Plus(at.ox, Times(<<20 * f + grid[1], 1>>, at.ux)),
            y |-> Plus(at.oy, Times(<<grid[2], 1>>, at.uy)),
            z |-> IF zs = Undefined THEN Undefined ELSE Times(zs, at.ux)]

\* the first n landmarks of that hand
Pose(n, shapes, wrist, at) == [i \in 1..n |-> Landmark(i - 1, shapes, wrist, at)]

\* a wrist in the lower middle of the frame
Wrist == [x |-> <<2, 5>>, y |-> <<4, 5>>, z |-> Undefined]

AllFingers(sh) == <<sh, sh, sh, sh, sh>>

OpenLeft == Hand(Pose(21, AllFingers(Straight), Wrist, Normalized), "Left")

FistRight == Hand(Pose(21, AllFingers(Bent), Wrist, Normalized), "Right")

\* index and middle finger straight, no handedness from the detector
TwoPlain ==
  Hand(Pose(21, <<Bent, Straight, Straight, Bent, Bent>>, Wrist, Normalized), "")

\* a hand one landmark short: index 20 (the pinky tip) is missing
ShortHand == Hand(Pose(20, AllFingers(Straight), Wrist, Normalized), "")

SampleHands == {OpenLeft, FistRight, TwoPlain, ShortHand}

\* every joint just past its threshold: 151, 161, 161, 161, 161 degrees
EdgeOut == Hand(Pose(21, <<Above150, Above160, Above160, Above160, Above160>>,
                     Wrist, Normalized), "Left")

\* every joint just short of its threshold: 150, 160, 160, 160, 160 degrees
EdgeIn == Hand(Pose(21, <<Below150, Below160, Below160, Below160, Below160>>,
                    Wrist, Normalized), "Right")

\* angles between the two thresholds: 160, 151, 151, 180, 90 degrees
Between == Hand(Pose(21, <<Below160, Above150, Above150, Straight, Bent>>,
                     Wrist, Normalized), "")

\* coincident joints: thumb, index and middle finger have a vector of zero
\* length, the ring finger's first joint differs from the middle one in z only
Collapsed == Hand(Pose(21, <<FirstOnMiddle, TipOnMiddle, AllOnMiddle, BehindMiddle, Straight>>,
                       Wrist, Normalized), "Right")

\* landmarks 0..16 only: the pinky's three joints are missing
Stub17 == Hand(Pose(17, <<Above150, Below160, Above160, Straight, Straight>>,
                    Wrist, Normalized), "Left")

\* landmarks 0..8 only: thumb and index finger are complete
Stub9 == Hand(Pose(9, <<Below150, Above160, Straight, Straight, Straight>>,
                   Wrist, Normalized), "")

\* keypoints in pixels, the wrist in the middle of the frame at x = 640;
\* the joints form 150 and 160 degrees in pixels and more than 160 degrees
\* once divided by the frame's width and height
PixelHand == Hand(Pose(21, <<Below150, Below160, Below160, Below160, Below160>>,
                       [x |-> <<640, 1>>, y |-> <<600, 1>>, z |-> Undefined], Pixels), "Left")

\* the same keypoints with the wrist on the frame's left edge, at x = 1
PixelEdgeHand == Hand(Pose(21, <<Below150, Below160, Below160, Below160, Below160>>,
                           [x |-> <<1, 1>>, y |-> <<600, 1>>, z |-> Undefined], Pixels), "Left")

GeomHands == {OpenLeft, FistRight, ShortHand, EdgeOut, EdgeIn, Between, Collapsed,
              Stub17, Stub9, PixelHand, PixelEdgeHand}

LongHands == {OpenLeft, FistRight}

RECURSIVE SeqsUpTo(_, _)
SeqsUpTo(S, n) ==
  IF n = 0 THEN {<<>>}
  ELSE LET shorter == SeqsUpTo(S, n - 1)
       IN  shorter \cup {Append(s, x) : s \in {t \in shorter : Len(t) = n - 1}, x \in S}

Min(a, b) == IF a < b THEN a ELSE b

-----------------------------------------------------------------------------
(* Finger classifier *)

\* landmarks[i] is defined iff i is below the list's length; reading .x of
\* an undefined landmark throws
Defined(hand, i) == i < hand.n

\* a classifier whose comparisons admit the threshold itself
FingerExtendedInclusive(hand, f) ==
  LET j == FingerJoints[f]
  IN  IF \A k \in 1..3 : Defined(hand, j[k])
      THEN hand.ang[f] >= (IF f = 1 THEN THUMB_THRESHOLD ELSE FINGER_THRESHOLD)
      ELSE FALSE

\* a classifier with one try block around the five fingers: a missing
\* landmark leaves every finger not extended
FingerExtendedOneTry(hand, f) ==
  IF \A g \in 1..5 : \A k \in 1..3 : Defined(hand, FingerJoints[g][k])
  THEN hand.ang[f] > (IF f = 1 THEN THUMB_THRESHOLD ELSE FINGER_THRESHOLD)
  ELSE FALSE

\* try { extended[f] = angle > threshold } catch (e) { extended[f] = false }
FingerExtended(hand, f) ==
  LET j == FingerJoints[f]
  IN  IF \A k \in 1..3 : Defined(hand, j[k])
      THEN hand.ang[f] > (IF f = 1 THEN THUMB_THRESHOLD ELSE FINGER_THRESHOLD)
      ELSE FALSE

analyzeLandmarks(hand) ==
  LET extended == [f \in 1..5 |-> FingerExtended(hand, f)]
  IN  [extended |-> extended,
       count |-> Cardinality({f \in 1..5 : extended[f]})]

-----------------------------------------------------------------------------
(* Smoothing helpers *)

\* a push that drops the newest entry instead of the oldest once the window
\* is full (pop for shift)
PushPop(arr, v, max) ==
  LET pushed == Append(arr, v)
  IN  IF Len(pushed) > max THEN arr ELSE pushed

\* arr.push(v); if (arr.length > max) arr.shift();
PushShift(arr, v, max) ==
  LET pushed == Append(arr, v)
  IN  IF Len(pushed) > max THEN Tail(pushed) ELSE pushed

\* [...arr].sort((a,b)=>a-b)
RECURSIVE SortAsc(_)
SortAsc(arr) ==
  IF arr = <<>> THEN <<>>
  ELSE LET least == CHOOSE i \in DOMAIN arr : \A j \in DOMAIN arr : arr[i] <= arr[j]
           rest  == [k \in 1..(Len(arr) - 1) |-> IF k < least THEN arr[k] ELSE arr[k + 1]]
       IN  <<arr[least]>> \o SortAsc(rest)

\* Math.round of the non-negative fraction num/den: the nearest integer,
\* halves upwards
MathRound(num, den) == (2 * num + den) \div (2 * den)

\* sorted.length%2===1 ? sorted[mid] : Math.round((sorted[mid-1]+sorted[mid])/2)
\* (mid is a 0-based index in the source, the sequences here are 1-based)
Median(arr) ==
  LET sorted == SortAsc(arr)
      mid    == Len(sorted) \div 2
  IN  IF Len(sorted) % 2 = 1 THEN sorted[mid + 1]
      ELSE MathRound(sorted[mid] + sorted[mid + 1], 2)

\* a blend that forgets the weight of the previous value
BlendUndamped(previous, median) == MathRound(10 * previous + 4 * median, 10)

\* a blend with the two weights exchanged
BlendSwapped(previous, median) == MathRound(4 * previous + 6 * median, 10)

\* Math.round((smoothCount*0.6) + (median*0.4)); the sum is a multiple of
\* 0.2, never within a rounding error of a half
Blend(previous, median) == MathRound(6 * previous + 4 * median, 10)

\* counts[v]: a property key is a string; a number becomes its decimal form
PropertyKeys(arr) == [i \in DOMAIN arr |-> ToString(arr[i])]

FingerCounts == 0..Len(FingerJoints)

\* a key that is the decimal form of an integer (an "array index" key)
IsIndexKey(k) == \E n \in FingerCounts : ToString(n) = k

\* Number("3") = 3; Number(null) = 0
Number(k) ==
  IF k = "null" THEN 0 ELSE CHOOSE n \in FingerCounts : ToString(n) = k

\* the distinct elements of arr in order of first appearance
RECURSIVE Distinct(_)
Distinct(arr) ==
  IF arr = <<>> THEN <<>>
  ELSE LET front == Distinct(SubSeq(arr, 1, Len(arr) - 1))
           last  == arr[Len(arr)]
       IN  IF \E i \in DOMAIN front : front[i] = last THEN front
           ELSE Append(front, last)

\* Object.keys(counts): integer keys first, in ascending numeric order, then
\* the other keys in the order they were first written
ObjectKeys(arr) ==
  LET keys    == Distinct(arr)
      indices == SelectSeq(keys, IsIndexKey)
      others  == SelectSeq(keys, LAMBDA k : ~IsIndexKey(k))
      sorted  == SortAsc([i \in DOMAIN indices |-> Number(indices[i])])
  IN  [i \in DOMAIN sorted |-> ToString(sorted[i])] \o others

\* counts[k] after: for (const v of arr) counts[v] = (counts[v] || 0) + 1
Freq(arr, k) == Cardinality({i \in DOMAIN arr : arr[i] = k})

\* keys.reduce((a, b) => counts[a] > counts[b] ? a : b), from keys[i] on with
\* accumulator a
RECURSIVE ReduceFrom(_, _, _, _)
ReduceFrom(arr, keys, i, a) ==
  IF i > Len(keys) THEN a
  ELSE ReduceFrom(arr, keys, i + 1,
                  IF Freq(arr, a) > Freq(arr, keys[i]) THEN a ELSE keys[i])

\* part_001: function mode(arr); reduce of an empty array without an initial
\* value throws a TypeError
mode(arr) ==
  LET keys == ObjectKeys(arr)
  IN  IF keys = <<>> THEN "TypeError" ELSE ReduceFrom(arr, keys, 2, keys[1])

\* script_bkp.js: the loop of function mode(arr), from keys[i] on with best
RECURSIVE BestFrom(_, _, _, _)
BestFrom(arr, keys, i, best) ==
  IF i > Len(keys) THEN best
  ELSE BestFrom(arr, keys, i + 1,
                IF best = "null" \/ Freq(arr, keys[i]) > Freq(arr, best)
                THEN keys[i] ELSE best)

\* script_bkp.js: function mode(arr)
modeBkp(arr) == BestFrom(arr, ObjectKeys(arr), 1, "null")

\* part_000: function pushHistory(count, handLabel), on the smoother state s
pushHistory(s, count, handLabel) ==
  LET ch     == PushShift(s.countHistory, count, COUNT_HISTORY)
      hh     == PushShift(s.handHistory, handLabel, HAND_HISTORY)
      median == Median(ch)
      keys   == ObjectKeys(hh)
  IN  [countHistory |-> ch,
       handHistory  |-> hh,
       smoothCount  |-> Blend(s.smoothCount, median),
       smoothHand   |-> ReduceFrom(hh, keys, 2, keys[1])]

-----------------------------------------------------------------------------
(* Frame handlers, as functions of the state before the frame.  Hands are  *)
(* numbered from 1 here (index i of the source is i + 1).                  *)

\* the smoother and display state the handlers read and write
Current ==
  [countHistory |-> countHistory, handHistory |-> handHistory,
   smoothCount |-> smoothCount, smoothHand |-> smoothHand,
   countEl |-> countEl, handedEl |-> handedEl, statusEl |-> statusEl]

Flags == [showSkeleton |-> showSkeleton, multiHand |-> multiHand, mirror |-> mirror]

\* what a handler run has done so far: s is the state, the rest the record
\* kept in `frame`
Started(s, hands, rejected, began) ==
  [s |-> s, hands |-> hands, rejected |-> rejected, began |-> began,
   held |-> Len(s.countHistory), shown |-> <<>>, classified |-> {},
   rendered |-> {}, skeleton |-> {}, flipped |-> FALSE, pushed |-> <<>>,
   aggregated |-> <<>>, landmarks |-> <<>>, analysis |-> <<>>, resets |-> 0, displayed |-> FALSE, threw |-> FALSE, restored |-> FALSE]

NoFrame ==
  [Started([countHistory |-> <<>>], <<>>, FALSE, <<>>) EXCEPT !.s = "none"]

SwapLeftRight(label) ==
  IF label = "Left" THEN "Right" ELSE IF label = "Right" THEN "Left" ELSE label

\* a mirror correction that turns Left into Right and forgets the else branch
handednessLabelOneWay(h, mir) ==
  LET own == IF h.label # "" THEN h.label ELSE "Unknown"
  IN  IF mir /\ own = "Left" THEN "Right" ELSE own

\* part_000: let handednessLabel = 'Unknown'; if (h.handedness && h.handedness.length)
\* handednessLabel = h.handedness[0].label || 'Unknown'; if (mirror) { swap }
handednessLabel(h, mir) ==
  LET own == IF h.label # "" THEN h.label ELSE "Unknown"
  IN  IF mir THEN SwapLeftRight(own) ELSE own

\* part_001, script_bkp.js: label || 'Unknown', swapped since usingSelfieCam = true
selfieLabel(h) == SwapLeftRight(IF h.label # "" THEN h.label ELSE "Unknown")

\* lm = landmarks[tipIndices[t]]; lm.x throws a TypeError when lm is undefined
TipsThrow(h) == \E t \in DOMAIN TipIndices : ~Defined(h, TipIndices[t])

\* part_000: keypoints.map(k => ({x:k.x, y:k.y, z:(k.z||0)})); the angles
\* of the copy are those of the original, angleBetween reading z as
\* (z || 0) itself
copyLandmarks(h) ==
  [h EXCEPT !.pts = [k \in DOMAIN @ |-> [@[k] EXCEPT !.z = OrZero(@)]]]

\* part_000: normLandmarks = landmarks.map(pt => ...); the angles of the
\* converted list are those kept with the list
toNormalized(landmarks) ==
  The({[lm EXCEPT !.pts = Scaled(@), !.ang = lm.scaled] : lm \in {landmarks}})

\* part_000: normLandmarks for a hand of 21 keypoints:
\* landmarks[0].x > 1.5 ? the converted list : landmarks
normLandmarks(h) ==
  The({IF FirstXInPixels(landmarks.pts) THEN toNormalized(landmarks)
       ELSE landmarks :
       landmarks \in {copyLandmarks(h)}})

\* part_000: the body of for (let i=0;i<shownHands.length;i++), from hand i on
RECURSIVE BlendLoop(_, _, _, _, _)
BlendLoop(r, shownHands, i, mir, skeleton) ==
  IF i > Len(shownHands) THEN r
  ELSE LET h == shownHands[i]
       IN  IF h.n # LANDMARKS
           THEN BlendLoop(r, shownHands, i + 1, mir, skeleton)
           ELSE LET norm     == normLandmarks(h)
                    analysis == analyzeLandmarks(norm)
                    label    == handednessLabel(h, mir)
                    fed      == i = 1
                    sm       == pushHistory(r.s, analysis.count, label)
                    after    ==
                      [r EXCEPT
                         !.s = IF fed
                               THEN [@ EXCEPT !.countHistory = sm.countHistory,
                                              !.handHistory = sm.handHistory,
                                              !.smoothCount = sm.smoothCount,
                                              !.smoothHand = sm.smoothHand]
                               ELSE @,
                         !.pushed = IF fed THEN Append(@, <<analysis.count, label>>) ELSE @,
                         !.aggregated = IF fed
                                        THEN Append(@, <<Len(sm.countHistory), Len(sm.handHistory)>>)
                                        ELSE @,
                         !.landmarks = (i :> norm.pts) @@ @,
                         !.analysis = (i :> analysis) @@ @,
                         !.classified = @ \cup {i},
                         !.rendered = @ \cup {i},
                         !.skeleton = IF skeleton THEN @ \cup {i} ELSE @]
                IN  BlendLoop(after, shownHands, i + 1, mir, skeleton)

\* a selection that forgets the clamp to maxHands
shownUnclamped(hands, maxHands) == hands

\* part_000: const shownHands = hands.slice(0, maxHands)
shownHands(hands, maxHands) == SubSeq(hands, 1, Min(Len(hands), maxHands))

\* a no-hands branch that clears the windows and the page but leaves the
\* smoothed values standing
NoHandsKeepSmooth(r) ==
  [r EXCEPT
     !.s = [@ EXCEPT !.countHistory = <<>>, !.handHistory = <<>>,
                     !.countEl = 0, !.handedEl = Dash,
                     !.statusEl = "No hands detected"],
     !.resets = @ + 1,
     !.displayed = TRUE]

\* part_000: the else branch of processFrame ("no hands")
NoHandsBlend(r) ==
  [r EXCEPT
     !.s = [countHistory |-> <<>>, handHistory |-> <<>>,
            smoothCount |-> 0, smoothHand |-> Dash,
            countEl |-> 0, handedEl |-> Dash,
            statusEl |-> "No hands detected"],
     !.resets = @ + 1,
     !.displayed = TRUE]

\* part_000: try { hands = await detector.estimateHands(...) } catch (err)
\* { hands = [] }: the value of hands after it, given the detector's outcome
estimateHands(outcome) == IF outcome.threw THEN <<>> ELSE outcome.hands

\* part_000: processFrame from the await on: r.hands is the value of hands
\* after the try, maxHands the local computed before the await; mir and
\* skeleton are the globals mirror and showSkeleton, read after the await
processFrame(r0, maxHands, mir, skeleton) ==
  LET r     == [r0 EXCEPT !.flipped = mir]
      hands == r.hands
      done  ==
        IF Len(hands) > 0
        THEN LET shown  == shownHands(hands, maxHands)
                 looped == BlendLoop([r EXCEPT !.shown = shown], shown, 1, mir, skeleton)
             IN  [looped EXCEPT
                    !.s = [@ EXCEPT
                             !.countEl = looped.s.smoothCount,
                             !.handedEl = looped.s.smoothHand,
                             !.statusEl = "Detected " \o ToString(Len(hands)) \o " hand(s)"],
                    !.displayed = TRUE]
        ELSE NoHandsBlend(r)
  IN  [done EXCEPT !.restored = TRUE]

\* part_001: the body of for (let i = 0; i < handsToShow; i++), from hand i on;
\* an exception ends the loop and the handler.  A hand counts as rendered
\* once something of it is drawn: its skeleton, or its first fingertip.
RECURSIVE KeyboardLoop(_, _, _, _)
KeyboardLoop(r, handsToShow, i, skeleton) ==
  IF i > handsToShow THEN r
  ELSE LET h        == r.hands[i]
           label    == selfieLabel(h)
           analysis == analyzeLandmarks(h)
           fed      == i = 1
           after    ==
             [r EXCEPT
                !.s = IF fed
                      THEN [@ EXCEPT
                              !.countHistory = PushShift(@, analysis.count, HISTORY_MAX_KEYBOARD),
                              !.handHistory = PushShift(@, label, HISTORY_MAX_KEYBOARD)]
                      ELSE @,
                !.pushed = IF fed THEN Append(@, <<analysis.count, label>>) ELSE @,
                !.landmarks = (i :> h.pts) @@ @,
                !.analysis = (i :> analysis) @@ @,
                !.classified = @ \cup {i},
                !.rendered = IF skeleton \/ Defined(h, TipIndices[1]) THEN @ \cup {i} ELSE @,
                !.skeleton = IF skeleton THEN @ \cup {i} ELSE @]
       IN  IF TipsThrow(h)
           THEN [after EXCEPT !.threw = TRUE]
           ELSE KeyboardLoop(after, handsToShow, i + 1, skeleton)

\* a no-hands branch that forgets handedHistory = []
NoHandsCountOnly(r) ==
  [r EXCEPT
     !.s = [@ EXCEPT !.countHistory = <<>>,
                     !.countEl = 0, !.handedEl = Dash,
                     !.statusEl = "No hands detected"],
     !.resets = @ + 1,
     !.displayed = TRUE]

\* part_001, script_bkp.js: the else branch of onResults ("no hands")
NoHands(r) ==
  [r EXCEPT
     !.s = [@ EXCEPT !.countHistory = <<>>, !.handHistory = <<>>,
                     !.countEl = 0, !.handedEl = Dash,
                     !.statusEl = "No hands detected"],
     !.resets = @ + 1,
     !.displayed = TRUE]

\* part_001: function onResults(results)
onResults(r, multi, skeleton) ==
  LET hands == r.hands
  IN  IF Len(hands) > 0
      THEN LET handsToShow == IF multi THEN Len(hands) ELSE Min(1, Len(hands))
               looped      == KeyboardLoop([r EXCEPT !.shown = SubSeq(hands, 1, handsToShow)],
                                           handsToShow, 1, skeleton)
           IN  IF looped.threw THEN looped
               ELSE [looped EXCEPT
                       !.s = [@ EXCEPT
                                !.countEl = Number(mode(PropertyKeys(looped.s.countHistory))),
                                !.handedEl = mode(looped.s.handHistory),
                                !.statusEl = "Hand detected"],
                       !.aggregated = << <<Len(looped.s.countHistory),
                                           Len(looped.s.handHistory)>> >>,
                       !.displayed = TRUE,
                       !.restored = TRUE]
      ELSE [NoHands(r) EXCEPT !.restored = TRUE]

\* an onResults that takes the modes before it pushes the frame's values
onResultsBkpEarly(r) ==
  LET hands == r.hands
  IN  IF Len(hands) > 0
      THEN LET primary  == hands[1]
               label    == selfieLabel(primary)
               analysis == analyzeLandmarks(primary)
               ch       == PushShift(r.s.countHistory, analysis.count, HISTORY_MAX_BACKUP)
               hh       == PushShift(r.s.handHistory, label, HISTORY_MAX_BACKUP)
               shown    ==
                 [r EXCEPT
                    !.s = [@ EXCEPT !.countHistory = ch, !.handHistory = hh,
                                    !.countEl = Number(modeBkp(PropertyKeys(r.s.countHistory))),
                                    !.handedEl = modeBkp(r.s.handHistory),
                                    !.statusEl = "Hand detected"],
                    !.shown = <<primary>>,
                    !.rendered = 1..Len(hands),
                    !.skeleton = 1..Len(hands),
                    !.pushed = <<<<analysis.count, label>>>>,
                    !.aggregated = << <<Len(r.s.countHistory), Len(r.s.handHistory)>> >>,
                    !.landmarks = <<primary.pts>>,
                    !.analysis = <<analysis>>,
                    !.classified = {1},
                    !.displayed = TRUE]
           IN  IF TipsThrow(primary)
               THEN [shown EXCEPT !.threw = TRUE]
               ELSE [shown EXCEPT !.restored = TRUE]
      ELSE [NoHands(r) EXCEPT !.restored = TRUE]

\* script_bkp.js: function onResults(results)
onResultsBkp(r) ==
  LET hands == r.hands
  IN  IF Len(hands) > 0
      THEN LET primary  == hands[1]
               label    == selfieLabel(primary)
               analysis == analyzeLandmarks(primary)
               ch       == PushShift(r.s.countHistory, analysis.count, HISTORY_MAX_BACKUP)
               hh       == PushShift(r.s.handHistory, label, HISTORY_MAX_BACKUP)
               shown    ==
                 [r EXCEPT
                    !.s = [@ EXCEPT !.countHistory = ch, !.handHistory = hh,
                                    !.countEl = Number(modeBkp(PropertyKeys(ch))),
                                    !.handedEl = modeBkp(hh),
                                    !.statusEl = "Hand detected"],
                    !.shown = <<primary>>,
                    !.rendered = 1..Len(hands),
                    !.skeleton = 1..Len(hands),
                    !.pushed = <<<<analysis.count, label>>>>,
                    !.aggregated = << <<Len(ch), Len(hh)>> >>,
                    !.landmarks = <<primary.pts>>,
                    !.analysis = <<analysis>>,
                    !.classified = {1},
                    !.displayed = TRUE]
           IN  IF TipsThrow(primary)
               THEN [shown EXCEPT !.threw = TRUE]
               ELSE [shown EXCEPT !.restored = TRUE]
      ELSE [NoHands(r) EXCEPT !.restored = TRUE]

-----------------------------------------------------------------------------
(* The state machine *)

Init ==
  /\ variant \in Variants
  /\ pc = IF variant = "blend" THEN "loading" ELSE "starting"
  /\ modelLoaded = FALSE
  /\ raf = 0
  /\ awaiting = <<>>
  /\ showSkeleton = TRUE
  /\ multiHand = FALSE
  /\ mirror = FALSE
  /\ clicks = 0
  /\ countHistory = <<>>
  /\ handHistory = <<>>
  /\ smoothCount = 0
  /\ smoothHand = Dash
  /\ countEl = Markup
  /\ handedEl = "markup"
  /\ statusEl = IF variant = "blend" THEN "Loading TF detector..." ELSE "markup"
  /\ observed = <<>>
  /\ frame = NoFrame

\* the run of the frame handler that the state allows: of the k-th suspended
\* processFrame in part_000 (k is not used by the others), on the detector's
\* outcome
Handle(k, outcome) ==
  IF variant = "blend"
  THEN processFrame(Started(Current, estimateHands(outcome), outcome.threw,
                            awaiting[k].began),
                    awaiting[k].maxHands, mirror, showSkeleton)
  ELSE IF variant = "keyboard"
  THEN onResults(Started(Current, outcome.hands, FALSE, Flags), multiHand, showSkeleton)
  ELSE onResultsBkp(Started(Current, outcome.hands, FALSE, Flags))

Detected(hands) == [threw |-> FALSE, hands |-> hands]

\* estimateHands threw: hands was never assigned
Threw == [threw |-> TRUE, hands |-> "undefined"]

\* requestAnimationFrame(processFrame): one more callback is pending
requestAnimationFrame(pending) == pending + 1

\* the handler's result r becomes the state
Finish(r) ==
  /\ countHistory' = r.s.countHistory
  /\ handHistory' = r.s.handHistory
  /\ smoothCount' = r.s.smoothCount
  /\ smoothHand' = r.s.smoothHand
  /\ countEl' = r.s.countEl
  /\ handedEl' = r.s.handedEl
  /\ statusEl' = r.s.statusEl
  /\ observed' = IF r.resets > 0 THEN <<>> ELSE observed \o r.pushed
  /\ frame' = [r EXCEPT !.s = "done"]

\* part_000: initDetector() after createDetector resolved
InitDetectorResolve ==
  /\ variant = "blend" /\ pc = "loading"
  /\ modelLoaded' = TRUE
  /\ statusEl' = "Model loaded - starting camera..."
  /\ pc' = "starting"
  /\ UNCHANGED <<variant, raf, awaiting, showSkeleton, multiHand, mirror, clicks,
                 countHistory, handHistory, smoothCount, smoothHand, countEl,
                 handedEl, observed, frame>>

\* part_000: initDetector().catch
InitDetectorReject ==
  /\ variant = "blend" /\ pc = "loading"
  /\ statusEl' = "Model init failed"
  /\ pc' = "failed"
  /\ UNCHANGED <<variant, modelLoaded, raf, awaiting, showSkeleton, multiHand,
                 mirror, clicks, countHistory, handHistory, smoothCount,
                 smoothHand, countEl, handedEl, observed, frame>>

\* startCamera() / camera.start().then: the camera runs; part_000 schedules
\* the first processFrame
StartCameraResolve ==
  /\ pc = "starting"
  /\ pc' = "running"
  /\ statusEl' = IF variant = "backup"
                 THEN "Camera started. Show your hand to count fingers."
                 ELSE "Camera started. Show your hand."
  /\ raf' = IF variant = "blend" THEN requestAnimationFrame(raf) ELSE raf
  /\ UNCHANGED <<variant, modelLoaded, awaiting, showSkeleton, multiHand, mirror,
                 clicks, countHistory, handHistory, smoothCount, smoothHand,
                 countEl, handedEl, observed, frame>>

\* startCamera() catch / camera.start().catch
StartCameraReject ==
  /\ pc = "starting"
  /\ pc' = "failed"
  /\ statusEl' = "Camera error"
  /\ UNCHANGED <<variant, modelLoaded, raf, awaiting, showSkeleton, multiHand,
                 mirror, clicks, countHistory, handHistory, smoothCount,
                 smoothHand, countEl, handedEl, observed, frame>>

\* a processFrame that schedules the next callback before it awaits the
\* detector, not at its end
ProcessFrameBeginEager(ready) ==
  /\ variant = "blend" /\ raf > 0
  /\ raf' = requestAnimationFrame(raf - 1)
  /\ awaiting' = IF ~modelLoaded \/ ~ready THEN awaiting
                 ELSE Append(awaiting, [maxHands |-> IF multiHand THEN 2 ELSE 1,
                                        began |-> Flags])
  /\ UNCHANGED <<variant, pc, modelLoaded, showSkeleton, multiHand, mirror, clicks,
                 countHistory, handHistory, smoothCount, smoothHand, countEl,
                 handedEl, statusEl, observed, frame>>

\* part_000: processFrame up to the await; ready is video.readyState >= 2
ProcessFrameBegin(ready) ==
  /\ variant = "blend" /\ raf > 0
  /\ IF ~modelLoaded \/ ~ready
     THEN /\ raf' = requestAnimationFrame(raf - 1)
          /\ awaiting' = awaiting
     ELSE /\ raf' = raf - 1
          /\ awaiting' = Append(awaiting, [maxHands |-> IF multiHand THEN 2 ELSE 1,
                                            began |-> Flags])
  /\ UNCHANGED <<variant, pc, modelLoaded, showSkeleton, multiHand, mirror, clicks,
                 countHistory, handHistory, smoothCount, smoothHand, countEl,
                 handedEl, statusEl, observed, frame>>

\* a processFrame whose catch block rethrows: after a detector failure the
\* no-hands branch still runs but the last statement is never reached
ProcessFrameResumeRethrow(k, outcome, obsCap) ==
  /\ variant = "blend" /\ k \in DOMAIN awaiting
  /\ outcome.threw \/ Len(outcome.hands) = 0 \/ Len(observed) < obsCap
  /\ Finish(Handle(k, outcome))
  /\ awaiting' = [i \in 1..(Len(awaiting) - 1) |->
                    IF i < k THEN awaiting[i] ELSE awaiting[i + 1]]
  /\ raf' = IF outcome.threw THEN raf ELSE requestAnimationFrame(raf)
  /\ UNCHANGED <<variant, pc, modelLoaded, showSkeleton, multiHand, mirror, clicks>>

\* part_000: processFrame from the await to its end, for the k-th suspended
\* invocation; the last statement schedules the next frame
ProcessFrameResume(k, outcome, obsCap) ==
  /\ variant = "blend" /\ k \in DOMAIN awaiting
  /\ outcome.threw \/ Len(outcome.hands) = 0 \/ Len(observed) < obsCap
  /\ Finish(Handle(k, outcome))
  /\ awaiting' = [i \in 1..(Len(awaiting) - 1) |->
                    IF i < k THEN awaiting[i] ELSE awaiting[i + 1]]
  /\ raf' = requestAnimationFrame(raf)
  /\ UNCHANGED <<variant, pc, modelLoaded, showSkeleton, multiHand, mirror, clicks>>

\* part_001, script_bkp.js: MediaPipe calls onResults with a frame's result
OnResults(hands, obsCap) ==
  /\ variant \in {"keyboard", "backup"} /\ pc = "running"
  /\ Len(hands) = 0 \/ Len(observed) < obsCap
  /\ Finish(Handle(1, Detected(hands)))
  /\ UNCHANGED <<variant, pc, modelLoaded, raf, awaiting, showSkeleton, multiHand,
                 mirror, clicks>>

\* part_000: btnSkeleton click
BtnSkeletonClick(clickCap) ==
  /\ variant = "blend" /\ clicks < clickCap
  /\ showSkeleton' = ~showSkeleton
  /\ clicks' = clicks + 1
  /\ UNCHANGED <<variant, pc, modelLoaded, raf, awaiting, multiHand, mirror,
                 countHistory, handHistory, smoothCount, smoothHand, countEl,
                 handedEl, statusEl, observed, frame>>

\* part_000: btnMulti click
BtnMultiClick(clickCap) ==
  /\ variant = "blend" /\ clicks < clickCap
  /\ multiHand' = ~multiHand
  /\ clicks' = clicks + 1
  /\ UNCHANGED <<variant, pc, modelLoaded, raf, awaiting, showSkeleton, mirror,
                 countHistory, handHistory, smoothCount, smoothHand, countEl,
                 handedEl, statusEl, observed, frame>>

\* part_000: mirror = !mirror
ToggleMirror(m) == ~m

\* part_000: btnMirror click
BtnMirrorClick(clickCap) ==
  /\ variant = "blend" /\ clicks < clickCap
  /\ mirror' = ToggleMirror(mirror)
  /\ clicks' = clicks + 1
  /\ UNCHANGED <<variant, pc, modelLoaded, raf, awaiting, showSkeleton, multiHand,
                 countHistory, handHistory, smoothCount, smoothHand, countEl,
                 handedEl, statusEl, observed, frame>>

\* e.key.toLowerCase() for the keys pressed in the model
ToLowerCase(key) == IF key = "S" THEN "s" ELSE IF key = "M" THEN "m" ELSE key

Keys == {"s", "M", "x"}

\* part_001: the keydown listener
KeyDown(key, clickCap) ==
  /\ variant = "keyboard" /\ clicks < clickCap
  /\ showSkeleton' = IF ToLowerCase(key) = "s" THEN ~showSkeleton ELSE showSkeleton
  /\ multiHand' = IF ToLowerCase(key) = "m" THEN ~multiHand ELSE multiHand
  /\ clicks' = clicks + 1
  /\ UNCHANGED <<variant, pc, modelLoaded, raf, awaiting, mirror, countHistory,
                 handHistory, smoothCount, smoothHand, countEl, handedEl,
                 statusEl, observed, frame>>

\* the detector's results: every list of at most MaxNumHands sample hands
Frames == SeqsUpTo(SampleHands, MaxNumHands)

\* one well-formed hand, or none
LongFrames == SeqsUpTo(LongHands, 1)

\* one hand of special geometry, or none
GeomFrames == SeqsUpTo(GeomHands, 1)

NextWith(frames, obsCap, clickCap) ==
  \/ InitDetectorResolve
  \/ InitDetectorReject
  \/ StartCameraResolve
  \/ StartCameraReject
  \/ \E ready \in BOOLEAN : ProcessFrameBegin(ready)
  \/ \E k \in DOMAIN awaiting, hands \in frames :
       ProcessFrameResume(k, Detected(hands), obsCap)
  \/ \E k \in DOMAIN awaiting : ProcessFrameResume(k, Threw, obsCap)
  \/ \E hands \in frames : OnResults(hands, obsCap)
  \/ BtnSkeletonClick(clickCap)
  \/ BtnMultiClick(clickCap)
  \/ BtnMirrorClick(clickCap)
  \/ \E key \in Keys : KeyDown(key, clickCap)

\* every detector result over the sample hands, short runs
Next == NextWith(Frames, MaxObs, MaxClicks)

Spec == Init /\ [][Next]_vars

\* one well-formed hand per frame, runs long enough to fill the windows
NextLong == NextWith(LongFrames, MaxLongObs, MaxLongClicks)

SpecLong == Init /\ [][NextLong]_vars

\* one hand per frame out of the hands of special geometry
NextGeom == NextWith(GeomFrames, MaxGeomObs, MaxGeomClicks)

SpecGeom == Init /\ [][NextGeom]_vars

-----------------------------------------------------------------------------
(* Properties *)

\* a run of the frame handler has finished, and nothing has run since
FrameDone == frame.s = "done"

\* the last n entries of seq, all of them when it has fewer
LastN(seq, n) ==
  IF Len(seq) <= n THEN seq ELSE SubSeq(seq, Len(seq) - n + 1, Len(seq))

\* the window size the variants are documented with
WindowSize == IF variant = "backup" THEN 6 ELSE 8

ObservedCounts == [i \in DOMAIN observed |-> observed[i][1]]

ObservedLabels == [i \in DOMAIN observed |-> observed[i][2]]

\* C1: the count window and the handedness window never hold more than N
\* entries (8 in the blend and keyboard variants, 6 in the backup variant),
\* and after any number of observations without a no-hand frame in between
\* each window holds exactly the most recent N observed values, oldest
\* first.
C1_WindowsHoldMostRecent ==
  /\ Len(countHistory) <= WindowSize
  /\ Len(handHistory) <= WindowSize
  /\ countHistory = LastN(ObservedCounts, WindowSize)
  /\ handHistory = LastN(ObservedLabels, WindowSize)

\* C1 witness: the blend variant after 9 observations in a row, the oldest
\* of which differed from the second and has been evicted
C1_Witness ==
  /\ variant = "blend"
  /\ Len(observed) = 9
  /\ observed[1] # observed[2]
  /\ Len(countHistory) = 8
  /\ countHistory[1] = observed[2][1]
  /\ handHistory[8] = observed[9][2]

\* C2: right after a frame in which the detector reports zero hands, both
\* windows are empty, the displayed finger count is 0 and the displayed
\* handedness is the sentinel, whatever was there before the frame (in the
\* blend variant the smoothed values behind the display as well).
C2_NoHandFrameResets ==
  (FrameDone /\ ~frame.rejected /\ Len(frame.hands) = 0) =>
     /\ countHistory = <<>>
     /\ handHistory = <<>>
     /\ countEl = 0
     /\ handedEl = Dash
     /\ variant = "blend" => (smoothCount = 0 /\ smoothHand = Dash)

\* C2 witness: a zero-hands frame has just run on windows that held entries
C2_Witness ==
  /\ FrameDone /\ ~frame.rejected /\ Len(frame.hands) = 0
  /\ frame.held = 2
  /\ countHistory = <<>>
  /\ countEl = 0

\* the frame handler can run in this state
CanHandle == IF variant = "blend" THEN awaiting # <<>> ELSE pc = "running"

\* the smoother state a handler run leaves: both windows, the displayed
\* count and the displayed handedness (with the blend variant's smoothed
\* values)
SmootherAfter(r) ==
  [countHistory |-> r.s.countHistory, handHistory |-> r.s.handHistory,
   smoothCount |-> r.s.smoothCount, smoothHand |-> r.s.smoothHand,
   countEl |-> r.s.countEl, handedEl |-> r.s.handedEl]

\* C3: the smoother state after a frame depends only on the state before it
\* and on the first hand of the detector's list: a frame and the frame that
\* has only its first hand leave the smoother in the same state.
C3_OnlyFirstHandFeeds ==
  CanHandle =>
    \A hands \in Frames :
      Len(hands) >= 1 =>
        SmootherAfter(Handle(1, Detected(hands)))
          = SmootherAfter(Handle(1, Detected(<<hands[1]>>)))

\* C4: in a frame with at least one detected hand (blend and keyboard
\* variants, the two with a multi-hand switch) the hands selected for
\* processing are exactly the first min(detected, multiHand ? 2 : 1) hands
\* of the detector's list, in its order, multiHand being the switch as the
\* frame's processing began; no hand past that prefix is classified or
\* rendered.
C4_SelectsPrefix ==
  (FrameDone /\ variant \in {"blend", "keyboard"} /\ Len(frame.hands) >= 1) =>
     LET prefix == Min(Len(frame.hands), IF frame.began.multiHand THEN 2 ELSE 1)
     IN  /\ frame.shown = SubSeq(frame.hands, 1, prefix)
         /\ frame.classified \cup frame.rendered \subseteq 1..prefix

\* C4 witness: the blend variant, two different hands detected with
\* multi-hand off: one hand selected, classified and rendered
C4_Witness ==
  /\ FrameDone /\ variant = "blend"
  /\ Len(frame.hands) = 2
  /\ frame.hands[1] # frame.hands[2]
  /\ ~frame.began.multiHand
  /\ frame.shown = <<frame.hands[1]>>
  /\ frame.classified = {1}
  /\ frame.rendered = {1}

\* a suspended processFrame of the blend variant runs to its end in this step
ResumeStep == variant = "blend" /\ Len(awaiting') < Len(awaiting)

\* the detector's own label for a hand, 'Unknown' when it gives none
DetectorLabel(h) == IF h.label = "" THEN "Unknown" ELSE h.label

\* the label the mirror switch is documented to give
MirroredLabel(on, label) ==
  IF on /\ label = "Left" THEN "Right"
  ELSE IF on /\ label = "Right" THEN "Left"
  ELSE label

\* C5 (blend variant): the handedness label fed to the smoother is 'Right'
\* for the detector's 'Left', 'Left' for its 'Right' and the detector's own
\* label otherwise when mirror is on, and the detector's own label when
\* mirror is off; one click on the mirror button swaps the label a hand would
\* be given, and two clicks give every hand the label it had before them.
C5_MirrorSwapsLabel ==
  /\ [][(ResumeStep /\ Len(frame'.pushed) = 1) =>
          frame'.pushed[1][2] = MirroredLabel(mirror, DetectorLabel(frame'.hands[1]))]_vars
  /\ [][(variant = "blend" /\ mirror' # mirror) =>
          \A h \in SampleHands :
            handednessLabel(h, mirror') = MirroredLabel(TRUE, handednessLabel(h, mirror))]_vars
  /\ [](\A h \in SampleHands :
          handednessLabel(h, ToggleMirror(ToggleMirror(mirror))) = handednessLabel(h, mirror))

\* C5 witness: a 'Left' hand was fed as 'Right' while mirror was on, and the
\* second of two clicks has switched mirror off again
C5_Witness ==
  /\ variant = "blend" /\ FrameDone
  /\ Len(frame.pushed) = 1
  /\ frame.hands[1].label = "Left"
  /\ frame.pushed[1][2] = "Right"
  /\ clicks = 2
  /\ ~mirror
  /\ handednessLabel(frame.hands[1], mirror) = "Left"

\* the k-th smallest entry of a window
Kth(arr, k) ==
  CHOOSE v \in {arr[i] : i \in DOMAIN arr} :
    /\ Cardinality({i \in DOMAIN arr : arr[i] < v}) < k
    /\ k <= Cardinality({i \in DOMAIN arr : arr[i] <= v})

\* twice the median of a window: twice the middle entry, or the sum of the
\* two middle entries
TwiceMedian(arr) ==
  IF Len(arr) % 2 = 1 THEN 2 * Kth(arr, (Len(arr) + 1) \div 2)
  ELSE Kth(arr, Len(arr) \div 2) + Kth(arr, Len(arr) \div 2 + 1)

\* the median with the average of the two middle entries rounded to the
\* nearest integer, halves upwards
RoundedMedian(arr) == (TwiceMedian(arr) + 1) \div 2

\* a processFrame of the blend variant observes hand 0 in this step
ObserveStep == ResumeStep /\ Len(frame'.pushed) = 1

\* C6 as stated: every observation sets displayed to
\* round(0.6 * previous + 0.4 * median), the median of an even-length window
\* being the unrounded average of its two middle entries
\* (0.6 p + 0.4 (t/2) = (6p + 2t)/10 with t twice the median).
C6_BlendOfUnroundedMedian ==
  [][ObserveStep =>
        /\ smoothCount' = (6 * smoothCount + 2 * TwiceMedian(countHistory') + 5) \div 10
        /\ countEl' = smoothCount']_vars

\* C6 as amended: every observation sets displayed to
\* round(0.6 * previous + 0.4 * median), the median of an even-length window
\* being the average of its two middle entries rounded to the nearest
\* integer, halves upwards.
C6_BlendOfRoundedMedian ==
  [][ObserveStep =>
        /\ smoothCount' = (6 * smoothCount + 4 * RoundedMedian(countHistory') + 5) \div 10
        /\ countEl' = smoothCount']_vars

\* C6 witness: the window 5,5,0,0 (middle entries 0 and 5, average 2.5)
\* observed after displayed was 4: displayed stays 4 = round(2.4 + 0.4 * 3)
C6_Witness ==
  /\ variant = "blend" /\ FrameDone
  /\ countHistory = <<5, 5, 0, 0>>
  /\ frame.pushed = << <<0, "Right">> >>
  /\ smoothCount = 4
  /\ countEl = 4

\* the entries of a window that occur in it most often
MostFrequent(arr) ==
  {v \in {arr[i] : i \in DOMAIN arr} :
     \A w \in {arr[i] : i \in DOMAIN arr} : Freq(arr, v) >= Freq(arr, w)}

\* the smallest of a set of counts
Smallest(S) == CHOOSE v \in S : \A w \in S : v <= w

\* the position at which v first appears in a window
FirstIndex(arr, v) ==
  CHOOSE i \in DOMAIN arr : arr[i] = v /\ \A j \in 1..(i - 1) : arr[j] # v

\* the one of a set of labels that appears first in a window
FirstAppearing(arr, S) ==
  CHOOSE v \in S : \A w \in S : FirstIndex(arr, v) <= FirstIndex(arr, w)

\* C7 as stated (keyboard and backup variants): after every frame with at
\* least one hand that updates the display, the displayed count is a most
\* frequent value of the count window, and among several tied values it is
\* the first in the frequency table's key order, the smallest.
C7_ModeTieFirstKey ==
  (/\ FrameDone /\ variant \in {"keyboard", "backup"}
   /\ Len(frame.hands) >= 1 /\ frame.displayed) =>
     /\ countEl \in MostFrequent(countHistory)
     /\ countEl = Smallest(MostFrequent(countHistory))

\* C8 as stated (every variant): after every frame that observes hand 0 and
\* updates the display, the displayed handedness is a most frequent label of
\* the handedness window, and among several tied labels it is the one that
\* appears first in the window.
C8_HandModeTieFirstLabel ==
  (FrameDone /\ Len(frame.pushed) = 1 /\ frame.displayed) =>
     /\ handedEl \in MostFrequent(handHistory)
     /\ handedEl = FirstAppearing(handHistory, MostFrequent(handHistory))

\* C9 as stated: in a frame with a selected hand that does not have exactly
\* 21 landmarks, each such hand is neither classified nor rendered, every
\* other selected hand is classified and rendered, the canvas state is
\* restored, the display is updated and no exception leaves the handler.
C9_MalformedHandSkippedOnly ==
  (FrameDone /\ \E i \in DOMAIN frame.shown : frame.shown[i].n # LANDMARKS) =>
     /\ \A i \in DOMAIN frame.shown :
          IF frame.shown[i].n # LANDMARKS
          THEN i \notin frame.classified \cup frame.rendered
          ELSE i \in frame.classified \cap frame.rendered
     /\ frame.restored
     /\ frame.displayed
     /\ ~frame.threw

\* C10 (blend variant): a frame whose detector call throws or rejects runs
\* exactly as the frame with zero hands would have: both windows end empty,
\* the displayed count 0, the displayed handedness the sentinel, the status
\* 'No hands detected'; and the step that ends the frame leaves one more
\* processFrame callback scheduled.
C10_DetectorFailureIsNoHands ==
  /\ []((variant = "blend" /\ CanHandle) =>
          Handle(1, Threw) = [Handle(1, Detected(<<>>)) EXCEPT !.rejected = TRUE])
  /\ [][(ResumeStep /\ frame'.rejected) =>
          /\ countHistory' = <<>> /\ handHistory' = <<>>
          /\ smoothCount' = 0 /\ smoothHand' = Dash
          /\ countEl' = 0 /\ handedEl' = Dash
          /\ statusEl' = "No hands detected"
          /\ frame'.restored
          /\ raf' = raf + 1]_vars

\* C10 witness: the detector failed in a frame that began with two entries
\* in the windows; they are empty and the next processFrame is scheduled
C10_Witness ==
  /\ variant = "blend" /\ FrameDone /\ frame.rejected
  /\ frame.held = 2
  /\ countHistory = <<>> /\ handHistory = <<>>
  /\ countEl = 0 /\ handedEl = Dash
  /\ statusEl = "No hands detected"
  /\ raf = 1

\* C11 as stated (blend variant): a frame uses for all three flags the
\* values they had when its processing began, also when a button was clicked
\* while it awaited the detector: the hands are selected with that multiHand,
\* the canvas is flipped and the label of hand 0 swapped with that mirror,
\* and the hands are drawn as skeletons with that showSkeleton.
C11_FrameUsesFlagsAtBegin ==
  (FrameDone /\ variant = "blend") =>
     /\ frame.shown =
          SubSeq(frame.hands, 1,
                 Min(Len(frame.hands), IF frame.began.multiHand THEN 2 ELSE 1))
     /\ frame.flipped = frame.began.mirror
     /\ \A i \in DOMAIN frame.pushed :
          frame.pushed[i][2] = MirroredLabel(frame.began.mirror,
                                             DetectorLabel(frame.hands[1]))
     /\ frame.skeleton = IF frame.began.showSkeleton THEN frame.rendered ELSE {}

\* C12 (blend variant, the one whose handler suspends): at most one
\* processFrame is in progress at any time; while one is suspended at the
\* detector no callback that would start another is pending, and a
\* processFrame reaches its await only when none is in progress.
C12_OneFrameInProgress ==
  /\ [](Len(awaiting) <= 1)
  /\ [](awaiting # <<>> => raf = 0)
  /\ [][Len(awaiting') > Len(awaiting) => awaiting = <<>>]_vars

\* C12 witness: a second processFrame is suspended at the detector after the
\* first ran to its end, with two button clicks handled along the way
C12_Witness ==
  /\ variant = "blend" /\ FrameDone
  /\ Len(awaiting) = 1
  /\ raf = 0
  /\ clicks = 2

\* a run of the frame handler happens in this step
HandlerStep ==
  \/ ResumeStep
  \/ /\ variant \in {"keyboard", "backup"}
     /\ <<frame, countHistory, handHistory, observed>>'
          # <<frame, countHistory, handHistory, observed>>

\* the step appends one value to each window, evicting the oldest entry of a
\* full window, and does nothing else to them
OneObserve ==
  /\ Len(frame'.pushed) = 1
  /\ frame'.resets = 0
  /\ countHistory' = PushShift(countHistory, frame'.pushed[1][1], WindowSize)
  /\ handHistory' = PushShift(handHistory, frame'.pushed[1][2], WindowSize)

\* the step empties both windows and does nothing else to them
OneReset ==
  /\ frame'.pushed = <<>>
  /\ frame'.resets = 1
  /\ countHistory' = <<>>
  /\ handHistory' = <<>>

\* the step leaves both windows as they were
Untouched ==
  /\ frame'.pushed = <<>>
  /\ frame'.resets = 0
  /\ countHistory' = countHistory
  /\ handHistory' = handHistory

\* C13 as stated: every processed frame mutates the windows exactly once, a
\* frame with at least one detected hand by exactly one observe and a frame
\* with zero hands by exactly one reset.
C13_OneMutationPerFrame ==
  [][HandlerStep =>
       IF Len(frame'.hands) >= 1 THEN OneObserve ELSE OneReset]_vars

\* C13 as amended: every processed frame mutates the windows at most once: a
\* frame with zero hands by exactly one reset, a frame with at least one
\* detected hand by exactly one observe, except that in the blend variant a
\* frame whose first hand does not have exactly 21 landmarks leaves the
\* windows untouched.
C13_AtMostOneMutationPerFrame ==
  [][HandlerStep =>
       IF Len(frame'.hands) = 0 THEN OneReset
       ELSE IF variant = "blend" /\ frame'.hands[1].n # LANDMARKS THEN Untouched
       ELSE OneObserve]_vars

\* C13 witness: the blend variant received a first hand of 20 landmarks while
\* the windows held one entry, and they still hold it
C13_Witness ==
  /\ variant = "blend" /\ FrameDone
  /\ Len(frame.hands) >= 1
  /\ frame.hands[1].n = 20
  /\ frame.held = 1
  /\ frame.pushed = <<>> /\ frame.resets = 0
  /\ Len(countHistory) = 1 /\ Len(handHistory) = 1

\* C14 as stated (blend variant), in the form a finite run refutes: when
\* every frame observes the same count c the displayed count eventually
\* equals c.  An observation of c that leaves the count window and the
\* smoothed count as they were (the window then holds c in every place) is
\* repeated unchanged by every later observation of c, so the displayed count
\* it leaves must be c.
C14_SteadyRunShowsCount ==
  [][(ObserveStep /\ countHistory' = countHistory /\ smoothCount' = smoothCount) =>
        countEl' = frame'.pushed[1][1]]_vars

\* C15: in every reachable state of every variant the finger count that the
\* script has written to the page is an integer from 0 to 5, and so are the
\* smoothed count behind it and every entry of the count window.
C15_DisplayedCountInRange ==
  /\ countEl # Markup => countEl \in 0..5
  /\ smoothCount \in 0..5
  /\ \A i \in DOMAIN countHistory : countHistory[i] \in 0..5

\* C15 witness: the keyboard variant shows 5, the top of the range, after
\* nine observations
C15_Witness ==
  /\ variant = "keyboard" /\ FrameDone
  /\ Len(observed) = 9
  /\ countEl = 5

\* C16: the median and the modes are never taken of an empty window: every
\* time a frame handler aggregates, both windows hold at least one entry,
\* and a handler that displays values after a frame with hands has
\* aggregated in that frame or (blend variant, first hand skipped) shows the
\* smoothed values it kept; the displayed handedness is never the mode of
\* nothing.
C16_AggregateOverNonEmptyWindow ==
  /\ \A i \in DOMAIN frame.aggregated :
       frame.aggregated[i][1] >= 1 /\ frame.aggregated[i][2] >= 1
  /\ (FrameDone /\ frame.displayed /\ Len(frame.hands) >= 1) =>
       \/ /\ Len(frame.aggregated) = 1
          /\ Len(countHistory) >= 1 /\ Len(handHistory) >= 1
       \/ variant = "blend" /\ frame.pushed = <<>>
  /\ handedEl \notin {"TypeError", "null"}

\* C16 witness: the keyboard variant, after a key press, ran a hand frame
\* that found the windows empty and took the modes of windows of one entry
C16_Witness ==
  /\ variant = "keyboard"
  /\ FrameDone /\ frame.displayed
  /\ frame.held = 0
  /\ frame.aggregated = << <<1, 1>> >>
  /\ Len(countHistory) = 1
  /\ statusEl = "Hand detected"
  /\ clicks >= 1

\* the five joint angles of a classified hand as angleBetween gives them on
\* the landmarks the classifier received, in whole degrees rounded up
GivenAngles(i) == [f \in 1..5 |-> JointAngle(frame.landmarks[i], f)]

\* C17: for every classified hand of 21 landmarks, with its five joint
\* angles as given, the thumb is marked extended iff its angle is greater
\* than 150 degrees, each other finger iff its angle is greater than 160
\* degrees, and the count is the number of fingers marked extended: 5 when
\* all angles are 180, 0 when all are 90 or less.
C17_ClassifyThresholds ==
  \A i \in frame.classified :
    Len(frame.landmarks[i]) = 21 =>
      LET given  == GivenAngles(i)
          result == frame.analysis[i]
      IN  /\ result.extended[1] <=> given[1] > 150
          /\ \A f \in 2..5 : result.extended[f] <=> given[f] > 160
          /\ result.count = Cardinality({f \in 1..5 : result.extended[f]})
          /\ (\A f \in 1..5 : given[f] = 180) => result.count = 5
          /\ (\A f \in 1..5 : given[f] <= 90) => result.count = 0
          /\ i = 1 => frame.pushed[1][1] = result.count

\* C17 witness: a hand with joint angles of 160, 151, 151, 180 and 90 degrees
\* was classified: thumb and ring finger extended, count 2
C17_Witness ==
  /\ FrameDone
  /\ frame.hands = <<Between>>
  /\ 1 \in frame.classified
  /\ GivenAngles(1) = [f \in 1..5 |-> <<160, 151, 151, 180, 90>>[f]]
  /\ frame.analysis[1].extended = [f \in 1..5 |-> f \in {1, 4}]
  /\ frame.analysis[1].count = 2
  /\ countHistory = <<2>>

\* the landmarks of a short hand followed by as many further landmarks as
\* a well-formed hand has
WellFormed(pts) == [k \in 1..LANDMARKS |-> IF k <= Len(pts) THEN pts[k] ELSE pts[1]]

\* landmark index j (counted from 0) is available among pts
Available(pts, j) == j < Len(pts)

\* C18: when the classifier receives a hand in which a landmark index that
\* a finger needs is unavailable, it marks that finger not extended, marks
\* every finger whose three landmarks are available as it marks that finger
\* of the well-formed hand with the same landmarks, and returns a result
\* (which the handler pushes) instead of raising an error.
C18_MissingLandmarkFingerNotExtended ==
  \A i \in frame.classified :
    Len(frame.landmarks[i]) < LANDMARKS =>
      LET pts    == frame.landmarks[i]
          result == frame.analysis[i]
          whole  == analyzeLandmarks([n |-> LANDMARKS, ang |-> Angles(WellFormed(pts))])
      IN  /\ \A f \in 1..5 :
               IF \A k \in 1..3 : Available(pts, FingerJoints[f][k])
               THEN result.extended[f] = whole.extended[f]
               ELSE ~result.extended[f]
          /\ result.count = Cardinality({f \in 1..5 : result.extended[f]})
          /\ i = 1 => frame.pushed[1][1] = result.count

\* C18 witness: a hand of landmarks 0..16 with joints of 151, 160, 161 and
\* 180 degrees was classified by the keyboard variant: thumb, middle and
\* ring finger extended, the pinky not, count 3
C18_Witness ==
  /\ FrameDone
  /\ variant = "keyboard"
  /\ frame.hands = <<Stub17>>
  /\ 1 \in frame.classified
  /\ frame.analysis[1].extended = [f \in 1..5 |-> f \in {1, 3, 4}]
  /\ frame.analysis[1].count = 3
  /\ frame.pushed = << <<3, "Right">> >>

\* the keypoints the detector gave for classified hand i of a blend frame,
\* a missing z read as 0
Arrived(i) ==
  [k \in 1..Len(frame.shown[i].pts) |->
     [frame.shown[i].pts[k] EXCEPT !.z = OrZero(@)]]

\* some coordinate component of some landmark is greater than 1.5
InPixelSpace(pts) ==
  \E k \in DOMAIN pts :
    \/ Less(<<3, 2>>, pts[k].x)
    \/ Less(<<3, 2>>, pts[k].y)
    \/ Less(<<3, 2>>, pts[k].z)

\* every x divided by the frame's width, every y by its height
Converted(pts) ==
  [k \in DOMAIN pts |->
     [x |-> Over(pts[k].x, <<1280, 1>>), y |-> Over(pts[k].y, <<720, 1>>), z |-> pts[k].z]]

\* C19: in the blend variant, a hand with some coordinate component greater
\* than 1.5 is classified and drawn on its landmarks with every x divided
\* by the frame width 1280 and every y by the frame height 720, and a hand
\* whose components are all at most 1.5 on its landmarks as they arrived.
C19_PixelSpaceNormalized ==
  \A i \in frame.classified :
    variant = "blend" =>
      LET expected == IF InPixelSpace(Arrived(i)) THEN Converted(Arrived(i))
                      ELSE Arrived(i)
      IN  /\ frame.landmarks[i] = expected
          /\ frame.analysis[i] = analyzeLandmarks([n |-> LANDMARKS, ang |-> Angles(expected)])

\* points p and q coincide, a missing z taken as 0
Coincide(p, q) ==
  /\ Minus(p.x, q.x)[1] = 0
  /\ Minus(p.y, q.y)[1] = 0
  /\ Minus(OrZero(p.z), OrZero(q.z))[1] = 0

\* the fingers of detected hand h whose first or last joint landmark
\* coincides with the middle one
Degenerate(h) ==
  {f \in 1..5 :
     LET j == FingerJoints[f]
     IN  /\ \A k \in 1..3 : j[k] < h.n
         /\ \/ Coincide(h.pts[j[1] + 1], h.pts[j[2] + 1])
            \/ Coincide(h.pts[j[3] + 1], h.pts[j[2] + 1])}

\* C20: for every classified hand and every finger whose joint landmarks a,
\* b, c have a coinciding with b or c coinciding with b (a missing z
\* coordinate counting as 0), the angle function returned exactly 0 and the
\* classification went on: the finger is marked not extended and the
\* hand has a result.
C20_CoincidentPointsGiveZero ==
  \A i \in frame.classified :
    \A f \in Degenerate(frame.hands[i]) :
      /\ frame.hands[i].ang[f] = 0
      /\ i \in DOMAIN frame.analysis
      /\ ~frame.analysis[i].extended[f]

\* C20 witness: the keyboard variant classified a hand whose thumb has a = b,
\* whose index finger has c = b and whose middle finger has a = b = c with z
\* missing on some of the three; their angles are 0, the ring finger's is 90
C20_Witness ==
  /\ FrameDone
  /\ variant = "keyboard"
  /\ frame.hands = <<Collapsed>>
  /\ 1 \in frame.classified
  /\ Degenerate(Collapsed) = {1, 2, 3}
  /\ \E k \in DOMAIN Collapsed.pts : Collapsed.pts[k].z = Undefined
  /\ Collapsed.ang = <<0, 0, 0, 90, 180>>
  /\ frame.analysis[1].extended = [f \in 1..5 |-> f = 5]

====
